---- MODULE Spec2Model ----
(***************************************************************************)
(* The recursive research orchestrator of deep-research.ts (deepResearch), *)
(* as a state machine.  One step of the model is one resumption of the     *)
(* single-threaded event loop: a collaborator (the model behind            *)
(* generateObject, the firecrawl search) answers or fails, and everything  *)
(* that then runs without a further await (promise adoption, the limiter's *)
(* dequeue, Promise.all settling, the callers' continuations) is part of   *)
(* the same step.                                                          *)
(*                                                                         *)
(* An invocation of deepResearch is named by its path in the call tree:    *)
(* the root is <<>>, and the recursive call made by the i-th unit of       *)
(* invocation p is p \o <<i>>, which is also the name of that unit.        *)
(***************************************************************************)
EXTENDS Integers, Sequences, FiniteSets, TLC

VARIABLES inv, unit, calls, trim, report

vars == <<inv, unit, calls, trim, report>>

\* ---------------------------------------------------------------- bounds

\* Largest breadth and depth a root call is started with.
MaxBreadth == 5
MaxDepth == 2
\* Units spawned over the whole call tree of one root call (bounds the
\* lengths of the Planner's answers).
MaxUnits == 5
\* Most paragraphs of a text handed to trimPrompt, most sentences of a
\* paragraph and most words of a sentence.
MaxParts == 2
\* Most urls handed to writeFinalReport.
MaxUrls == 3

\* --------------------------------------------------- program constants

ConcurrencyLimit == 4
\* processSerpResult's default for numLearnings, which deepResearch leaves
\* as it is
NumLearnings == 5
\* providers.ts
MinChunkSize == 140

\* ------------------------------------------------- collaborator answers

\* What firecrawl.search answers to the query of unit u: a list of
\* documents, which depends on the query, that is on the unit's place among
\* the queries; "" stands for a missing (or empty) url or markdown field.
SearchResponses(u) ==
  IF u[Len(u)] % 2 = 1
  THEN { << [url |-> "u1", markdown |-> "m"] >> }
  ELSE { << [url |-> "", markdown |-> "m"], [url |-> "u2", markdown |-> ""],
            [url |-> "u1", markdown |-> "m"] >> }

\* What the model may answer to processSerpResult's request for unit u.
DistillResponses(u) ==
  LET a == [learnings |-> << "L1" >>, followUpQuestions |-> << "f1", "f2" >>]
      b == [learnings |-> << "L2", "L1" >>, followUpQuestions |-> << "f1" >>]
  IN IF u[Len(u)] = 1 THEN {a, b}
     ELSE IF u[Len(u)] % 2 = 1 THEN {a} ELSE {b}

\* The model's answer to generateSerpQueries's request, m queries long; a
\* query is named by its place in the answer.
PlannerAnswer(m) == [i \in 1..m |-> [query |-> i, researchGoal |-> i]]

\* ------------------------------------------------------ pure functions

Min(a, b) == IF a <= b THEN a ELSE b

\* Array.prototype.slice(0, k) (faulty variant: the whole array)
SliceAll(s, k) == s
Slice(s, k) == SubSeq(s, 1, Min(k, Len(s)))

\* lodash compact: drops the falsy entries (faulty variant: drops nothing)
CompactNothing(s) == s
Compact(s) == SelectSeq(s, LAMBDA x : x # "")

MapUrl(docs) == [i \in 1..Len(docs) |-> docs[i].url]

Range(s) == {s[i] : i \in 1..Len(s)}

\* [...new Set(s)]: first occurrences, in order (faulty variant: what
\* occurs more than once is dropped altogether)
RECURSIVE Dedupe(_)
DedupeDropsRepeated(s) ==
  SelectSeq(s, LAMBDA x : Cardinality({i \in 1..Len(s) : s[i] = x}) = 1)
Dedupe(s) ==
  IF s = <<>> THEN <<>>
  ELSE LET r == Dedupe(SubSeq(s, 1, Len(s) - 1))
           x == s[Len(s)]
       IN IF x \in Range(r) THEN r ELSE Append(r, x)

\* Math.ceil(breadth / 2) (faulty variant: Math.floor) and depth - 1
\* (faulty variant: the depth is handed on as it is)
NewBreadthFloor(breadth) == breadth \div 2
NewBreadth(breadth) == (breadth \div 2) + (IF breadth % 2 = 0 THEN 0 ELSE 1)
NewDepthKept(depth) == depth
NewDepth(depth) == depth - 1

EmptyResult == [learnings |-> <<>>, visitedUrls |-> <<>>]

Front(p) == SubSeq(p, 1, Len(p) - 1)
Last(p) == p[Len(p)]

\* ------------------------------------------------------------- records

\* The state an operator transforms: the three variables as one record.
State(i, u, c) == [inv |-> i, unit |-> u, calls |-> c]

\* deepResearch's locals at its first await: the parameters, the fresh
\* progress record, and the call of generateSerpQueries in flight.  The
\* progress field currentQuery, a text that no code reads back, is left out.
NewInvocation(breadth, depth, learnings, visitedUrls) ==
  [ breadth |-> breadth, depth |-> depth,
    learnings |-> learnings, visitedUrls |-> visitedUrls,
    progress |-> [ currentDepth |-> depth, totalDepth |-> depth,
                   currentBreadth |-> breadth, totalBreadth |-> breadth,
                   totalQueries |-> 0, completedQueries |-> 0 ],
    status |-> "planning",
    serpQueries |-> <<>>,
    activeCount |-> 0, queue |-> <<>>, failure |-> "none",
    result |-> EmptyResult ]

\* One function handed to limit(): queued, then running its search, its
\* distillation and (perhaps) its recursive call, then settled.
NewUnit ==
  [ stage |-> "queued", outcome |-> "pending", failure |-> "none",
    newUrls |-> <<>>, newLearnings |-> <<>>, followUpQuestions |-> <<>>,
    result |-> EmptyResult ]

UnitsOf(S, q) == {q \o <<i>> : i \in 1..Len(S.inv[q].serpQueries)}

InFlightStages == {"searching", "distilling", "recursing"}

\* reportProgress: Object.assign(progress, update) on the invocation's own
\* progress record.
ReportProgress(S, q, update) ==
  [S EXCEPT !.inv[q].progress =
     [f \in DOMAIN @ |-> IF f \in DOMAIN update THEN update[f] ELSE @[f]]]

\* ------------------------------------------------------------ the limiter

\* p-limit's test before it dequeues on enqueue (and two faulty variants
\* of it: a limit one too large, and one limiter for the whole call tree)
HasFreeSlotWide(S, q) == S.inv[q].activeCount < ConcurrencyLimit + 1
HasFreeSlotGlobal(S, q) ==
  Cardinality({u \in DOMAIN S.unit : S.unit[u].stage \in InFlightStages})
    < ConcurrencyLimit
HasFreeSlot(S, q) == S.inv[q].activeCount < ConcurrencyLimit

\* run(): activeCount++, and the unit's function runs to its first await,
\* the call of firecrawl.search.
Dequeue(S, q) ==
  LET u == q \o << Head(S.inv[q].queue) >>
  IN [S EXCEPT !.inv[q].queue = Tail(@),
               !.inv[q].activeCount = @ + 1,
               !.unit[u].stage = "searching",
               !.calls.search = @ + 1]

\* limit(fn): enqueue, then start it when a slot is free
Enqueue(S, q, i) ==
  LET T == [S EXCEPT !.inv[q].queue = Append(@, i),
                     !.unit = (q \o <<i>> :> NewUnit) @@ @]
  IN IF HasFreeSlot(T, q) THEN Dequeue(T, q) ELSE T

\* serpQueries.map(serpQuery => limit(...)), from the i-th query on
RECURSIVE ScheduleFrom(_, _, _)
ScheduleFrom(S, q, i) ==
  IF i > Len(S.inv[q].serpQueries) THEN S
  ELSE ScheduleFrom(Enqueue(S, q, i), q, i + 1)

\* next(): the slot of a settled unit is given to the head of the queue
\* (faulty variant: the slot is never given back)
LimiterNextKeepsSlot(S, q) == S
LimiterNext(S, q) ==
  LET T == [S EXCEPT !.inv[q].activeCount = @ - 1]
  IN IF T.inv[q].queue # <<>> THEN Dequeue(T, q) ELSE T

\* ------------------------------------------------- merging and settling

\* results.flatMap(r => r[field]), over the units in the order of
\* serpQueries (Promise.all keeps the order of its argument; faulty
\* variant: the units taken from the last to the first)
RECURSIVE FlatMap(_, _, _, _)
FlatMapLastFirst(S, q, field, i) ==
  IF i > Len(S.inv[q].serpQueries) THEN <<>>
  ELSE FlatMap(S, q, field, i + 1) \o S.unit[q \o <<i>>].result[field]
FlatMap(S, q, field, i) ==
  IF i > Len(S.inv[q].serpQueries) THEN <<>>
  ELSE S.unit[q \o <<i>>].result[field] \o FlatMap(S, q, field, i + 1)

\* the value deepResearch returns (faulty variants: results[0] alone, no Set)
MergeFirstResult(S, q) ==
  IF S.inv[q].serpQueries = << >> THEN EmptyResult
  ELSE [ learnings |-> Dedupe(S.unit[q \o <<1>>].result.learnings),
         visitedUrls |-> Dedupe(S.unit[q \o <<1>>].result.visitedUrls) ]
MergeKeepsDuplicates(S, q) ==
  [ learnings |-> FlatMap(S, q, "learnings", 1),
    visitedUrls |-> FlatMap(S, q, "visitedUrls", 1) ]
Merge(S, q) ==
  [ learnings |-> Dedupe(FlatMap(S, q, "learnings", 1)),
    visitedUrls |-> Dedupe(FlatMap(S, q, "visitedUrls", 1)) ]

\* Promise.all: fulfilled when every promise is, rejected with the first
\* rejection (faulty variant: fulfilled with the first fulfilment)
AnyResolved(S, q) ==
  \E u \in UnitsOf(S, q) : S.unit[u].outcome = "resolved"
AllResolved(S, q) ==
  \A u \in UnitsOf(S, q) : S.unit[u].outcome = "resolved"
AnyRejected(S, q) ==
  \E u \in UnitsOf(S, q) : S.unit[u].outcome = "rejected"

RECURSIVE PromiseAll(_, _)
RECURSIVE UnitSettled(_, _, _, _)

\* A recursive call settles.  The unit returned the call's promise without
\* awaiting it, so the unit's own promise takes the call's outcome: its
\* result, or its rejection, which the unit's catch block never sees.
ChildSettled(S, u) ==
  IF S.inv[u].status = "returned"
  THEN UnitSettled(S, u, "resolved", S.inv[u].result)
  ELSE UnitSettled([S EXCEPT !.unit[u].failure = "nested"], u,
                   "rejected", EmptyResult)

\* An invocation settles: the root's caller is outside the model, a
\* recursive call's caller is the unit that made it.
InvocationSettled(S, q) == IF q = <<>> THEN S ELSE ChildSettled(S, q)

\* await Promise.all(...) and the return statement after it
PromiseAll(S, q) ==
  IF S.inv[q].status # "running" THEN S
  ELSE IF AnyRejected(S, q)
  THEN InvocationSettled(
         [S EXCEPT !.inv[q].status = "failed", !.inv[q].failure = "unit"], q)
  ELSE IF AllResolved(S, q)
  THEN InvocationSettled(
         [S EXCEPT !.inv[q].status = "returned",
                   !.inv[q].result = Merge(S, q)], q)
  ELSE S

\* A unit's promise settles: p-limit's run() goes on to next(), and the
\* Promise.all of the unit's invocation sees the outcome.
UnitSettled(S, u, outcome, result) ==
  LET T == [S EXCEPT !.unit[u].stage = "done",
                     !.unit[u].outcome = outcome,
                     !.unit[u].result = result]
  IN PromiseAll(LimiterNext(T, Front(u)), Front(u))

\* the catch block of a unit: log (timeouts apart), return the empty result
\* (the try block's constants, newUrls among them, are out of scope);
\* faulty variant: the error is thrown again
CatchBlockRethrows(S, u, kind, e) ==
  UnitSettled([S EXCEPT !.unit[u].failure = kind, !.unit[u].newUrls = <<>>],
              u, "rejected", EmptyResult)
CatchBlock(S, u, kind, e) ==
  UnitSettled([S EXCEPT !.unit[u].failure = kind, !.unit[u].newUrls = <<>>],
              u, "resolved", EmptyResult)

\* ---------------------------------------------------------------- actions

Errors == {"Timeout", "Other"}

\* The timeout, in milliseconds, each kind of call is made with (0: none):
\* firecrawl.search is given timeout: 15000, the generateObject call of
\* processSerpResult an abortSignal of 60 s, the one of generateSerpQueries
\* no abortSignal at all.
Timeout(kind) ==
  CASE kind = "search" -> 15000
    [] kind = "distill" -> 60000
    [] kind = "planner" -> 0

\* how a call of that kind can fail
ErrorsOf(kind) == IF Timeout(kind) > 0 THEN Errors ELSE Errors \ {"Timeout"}

Now == State(inv, unit, calls)

Becomes(S) == /\ inv' = S.inv
              /\ unit' = S.unit
              /\ calls' = S.calls
              /\ UNCHANGED <<trim, report>>

\* newDepth > 0 (faulty variants: newDepth !== 0, newDepth >= 0)
ShouldRecurseUnlessZero(newDepth) == newDepth # 0
ShouldRecurseAtZero(newDepth) == newDepth >= 0
ShouldRecurse(newDepth) == newDepth > 0

\* generateSerpQueries answers the invocation q with the first numQueries of
\* the model's m queries; deepResearch reports, creates its limiter, hands
\* every query to it and awaits them all.
\* generateSerpQueries returns m queries (in a call tree of at most
\* maxUnits units)
PlannerReturnsWithin(q, m, maxUnits) ==
  /\ inv[q].status = "planning"
  /\ Cardinality(DOMAIN unit) + Min(m, inv[q].breadth) <= maxUnits
  /\ LET serpQueries == Slice(PlannerAnswer(m), inv[q].breadth)
         S1 == [Now EXCEPT !.inv[q].serpQueries = serpQueries,
                           !.inv[q].status = "running"]
         S2 == ReportProgress(S1, q, [totalQueries |-> Len(serpQueries)])
     IN Becomes(PromiseAll(ScheduleFrom(S2, q, 1), q))

PlannerReturns(q, m) == PlannerReturnsWithin(q, m, MaxUnits)

\* generateSerpQueries throws (the model call fails): nothing catches it in
\* deepResearch, whose promise is rejected (faulty variant: the call
\* returns as if nothing had been planned).
PlannerFailureAbsorbed(S, q) ==
  InvocationSettled(
    [S EXCEPT !.inv[q].status = "returned", !.inv[q].failure = "planner"], q)
PlannerFailure(S, q) ==
  InvocationSettled(
    [S EXCEPT !.inv[q].status = "failed", !.inv[q].failure = "planner"], q)

PlannerFails(q, e) ==
  /\ inv[q].status = "planning"
  /\ Becomes(PlannerFailure(Now, q))

\* firecrawl.search answers unit u: the urls are collected and
\* processSerpResult asks the model.
SearchReturns(u, docs) ==
  /\ unit[u].stage = "searching"
  /\ Becomes([Now EXCEPT !.unit[u].stage = "distilling",
                         !.unit[u].newUrls = Compact(MapUrl(docs)),
                         !.calls.distill = @ + 1])

SearchFails(u, e) ==
  /\ unit[u].stage = "searching"
  /\ Becomes(CatchBlock(Now, u, "search", e))

\* [...a, ...b] (faulty variant: the accumulated list is left out)
SpreadSecond(a, b) == b
Spread(a, b) == a \o b

\* progress.completedQueries + 1, read and written in one synchronous
\* stretch (faulty variant: the count as it was when the invocation began)
CompletedQueriesStale(S, q) == 0 + 1
CompletedQueries(S, q) == S.inv[q].progress.completedQueries + 1

\* currentDepth as a leaf unit reports it (faulty variant: newDepth)
LeafDepthNew(newDepth) == newDepth
LeafDepth(newDepth) == 0

\* the update a unit reports once processSerpResult has answered
UnitUpdate(S, q) ==
  LET newBreadth == NewBreadth(S.inv[q].breadth)
      newDepth == NewDepth(S.inv[q].depth)
  IN IF ShouldRecurse(newDepth)
     THEN [ currentDepth |-> newDepth, currentBreadth |-> newBreadth,
            completedQueries |-> CompletedQueries(S, q) ]
     ELSE [ currentDepth |-> LeafDepth(newDepth),
            completedQueries |-> CompletedQueries(S, q) ]

\* processSerpResult answers unit u: the unit recurses, or returns as a leaf
DistillReturns(u, res) ==
  /\ unit[u].stage = "distilling"
  /\ LET q == Front(u)
         newBreadth == NewBreadth(inv[q].breadth)
         newDepth == NewDepth(inv[q].depth)
         allLearnings == Spread(inv[q].learnings, res.learnings)
         allUrls == Spread(inv[q].visitedUrls, unit[u].newUrls)
         S1 == [Now EXCEPT !.unit[u].newLearnings = res.learnings,
                           !.unit[u].followUpQuestions = res.followUpQuestions]
         S2 == ReportProgress(S1, q, UnitUpdate(S1, q))
     IN IF ShouldRecurse(newDepth)
        THEN Becomes([S2 EXCEPT
               !.unit[u].stage = "recursing",
               !.inv = (u :> NewInvocation(newBreadth, newDepth,
                                           allLearnings, allUrls)) @@ @,
               !.calls.planner = @ + 1])
        ELSE Becomes(UnitSettled(S2, u, "resolved",
               [learnings |-> allLearnings, visitedUrls |-> allUrls]))

DistillFails(u, e) ==
  /\ unit[u].stage = "distilling"
  /\ Becomes(CatchBlock(Now, u, "distill", e))

\* The progress sink throws at the report that follows the Planner's
\* answer: reportProgress has updated the record, the exception leaves
\* deepResearch, which is outside any try block there.
PlannerReturnsSinkThrows(q, m) ==
  /\ inv[q].status = "planning"
  /\ LET serpQueries == Slice(PlannerAnswer(m), inv[q].breadth)
         S1 == [Now EXCEPT !.inv[q].serpQueries = << >>,
                           !.inv[q].status = "failed",
                           !.inv[q].failure = "sink"]
         S2 == ReportProgress(S1, q, [totalQueries |-> Len(serpQueries)])
     IN Becomes(InvocationSettled(S2, q))

\* The progress sink throws at a unit's report: reportProgress has updated
\* the record, the exception is thrown inside the unit's try block.
DistillReturnsSinkThrows(u, res) ==
  /\ unit[u].stage = "distilling"
  /\ LET q == Front(u)
         S1 == [Now EXCEPT !.unit[u].newLearnings = res.learnings,
                           !.unit[u].followUpQuestions = res.followUpQuestions]
         S2 == ReportProgress(S1, q, UnitUpdate(S1, q))
     IN Becomes(CatchBlock(S2, u, "sink", "Other"))

\* ------------------------------------------------- trimPrompt (providers.ts)

\* A text is a sequence of characters: "a" stands for a character of
\* ordinary prose, "x" for a rare symbol; "\n" separates paragraphs, "."
\* sentences and " " words.
Word(c, w) == [i \in 1..w |-> c]

RECURSIVE Join(_, _, _)
Join(part, n, sep) ==
  IF n = 0 THEN << >>
  ELSE IF n = 1 THEN part
  ELSE Join(part, n - 1, sep) \o << sep >> \o part

\* p paragraphs of s sentences of n words of w characters c
Text(p, s, n, w, c) ==
  Join(Join(Join(Word(c, w), n, " "), s, "."), p, "\n")

WordLengths == {3, 40, 150}

\* the prompts and context sizes trimPrompt is called with
Prompts ==
  { << >> } \cup
  { Text(p, s, n, w, c) :
      p \in 1..MaxParts, s \in 1..MaxParts, n \in 1..MaxParts,
      w \in WordLengths, c \in {"a", "x"} }

ContextSizes == {0, 30, 37, 100, 149, 300}

\* encoder.encode(prompt).length: the o200k_base encoder spends about one
\* token on four characters of prose and one token on each rare symbol,
\* punctuation mark or break.
Tokens(prompt) ==
  LET prose == Cardinality({i \in 1..Len(prompt) : prompt[i] = "a"})
  IN (prose + 3) \div 4 + (Len(prompt) - prose)

\* String.prototype.slice(0, end)
JsSlice(str, end) ==
  IF end >= 0 THEN SubSeq(str, 1, Min(end, Len(str)))
  ELSE SubSeq(str, 1, IF Len(str) + end > 0 THEN Len(str) + end ELSE 0)

\* The boundaries the splitter prefers, best first.
Separators == << "\n", ".", " " >>

SeparatorAt(str, sep) == {i \in 1..Len(str) : str[i] = sep}

\* new RecursiveCharacterTextSplitter({chunkSize, chunkOverlap: 0})
\* .splitText(str)[0]: the longest run of leading pieces, cut at the best
\* separator, that fits the chunk size; a first piece that does not fit is
\* split at the next separator; a piece without any separator is not split.
RECURSIVE FirstChunk(_, _, _)
FirstChunk(str, chunkSize, k) ==
  IF Len(str) <= chunkSize \/ k > Len(Separators) THEN str
  ELSE LET at == SeparatorAt(str, Separators[k])
           fit == {i \in at : i - 1 <= chunkSize}
           first == CHOOSE i \in at : \A j \in at : i <= j
           last == CHOOSE i \in fit : \A j \in fit : j <= i
       IN IF fit # {} THEN SubSeq(str, 1, last - 1)
          ELSE IF at = {} THEN FirstChunk(str, chunkSize, k + 1)
          ELSE FirstChunk(SubSeq(str, 1, first - 1), chunkSize, k + 1)

\* what one call of trimPrompt does: it returns a text, or it ends in a
\* call of itself
Return(text) == [kind |-> "return", text |-> text, via |-> "fits"]
Recurse(text, via) == [kind |-> "call", text |-> text, via |-> via]

\* if (!prompt) return '' (faulty variant: an empty prompt is an error)
EmptyPromptThrows == [kind |-> "throw", text |-> << >>, via |-> "empty"]
EmptyPrompt == [kind |-> "return", text |-> << >>, via |-> "empty"]

\* prompt.length - overflowTokens * 3
TargetChunkSize(prompt, overflowTokens) == Len(prompt) - overflowTokens * 3

\* return prompt.slice(0, MinChunkSize) (faulty variant: the slice ends at
\* the target size)
MinChunkAtTarget(prompt, targetChunkSize) ==
  [kind |-> "return", text |-> JsSlice(prompt, targetChunkSize),
   via |-> "floor"]
MinChunk(prompt, targetChunkSize) ==
  [kind |-> "return", text |-> JsSlice(prompt, MinChunkSize), via |-> "floor"]

\* trimmedPrompt.length === prompt.length (faulty variant: never so)
HasNotShrunkNever(trimmedPrompt, prompt) == FALSE
HasNotShrunk(trimmedPrompt, prompt) == Len(trimmedPrompt) = Len(prompt)

TrimPrompt(prompt, contextSize) ==
  IF prompt = << >> THEN EmptyPrompt
  ELSE LET length == Tokens(prompt)
           overflowTokens == length - contextSize
           targetChunkSize == TargetChunkSize(prompt, overflowTokens)
           trimmedPrompt == FirstChunk(prompt, targetChunkSize, 1)
       IN IF length <= contextSize THEN Return(prompt)
          ELSE IF targetChunkSize < MinChunkSize
          THEN MinChunk(prompt, targetChunkSize)
          ELSE IF HasNotShrunk(trimmedPrompt, prompt)
          THEN Recurse(JsSlice(prompt, targetChunkSize), "slice")
          ELSE Recurse(trimmedPrompt, "chunk")

\* trim: the call being evaluated (prompt, contextSize), the text the
\* outermost call was given (input), the branches taken since (path), and
\* what the call returned the last time it was applied (before).
NoTrim == [pc |-> "idle"]

TrimCall(prompt, contextSize) ==
  [ pc |-> "call", prompt |-> prompt, contextSize |-> contextSize,
    input |-> prompt, path |-> << >>, before |-> << >>, applied |-> 1 ]

\* one call of trimPrompt runs: it ends in a recursive call
TrimRecurses ==
  /\ trim.pc = "call"
  /\ LET r == TrimPrompt(trim.prompt, trim.contextSize)
     IN /\ r.kind = "call"
        /\ trim' = [trim EXCEPT !.prompt = r.text,
                                !.path = Append(@, r.via)]
  /\ UNCHANGED <<inv, unit, calls, report>>

\* one call of trimPrompt runs and returns (or throws), and so do its callers
TrimReturns ==
  /\ trim.pc = "call"
  /\ LET r == TrimPrompt(trim.prompt, trim.contextSize)
     IN /\ r.kind # "call"
        /\ trim' = [trim EXCEPT
                      !.pc = IF r.kind = "return" THEN "returned" ELSE "thrown",
                      !.prompt = r.text,
                      !.path = Append(@, r.via)]
  /\ UNCHANGED <<inv, unit, calls, report>>

\* trimPrompt is applied to what it returned, with the same context size
TrimAgain ==
  /\ trim.pc = "returned"
  /\ trim.applied = 1
  /\ trim' = [trim EXCEPT !.pc = "call", !.input = trim.prompt,
                          !.path = << >>, !.before = trim.prompt,
                          !.applied = 2]
  /\ UNCHANGED <<inv, unit, calls, report>>

\* ------------------------------------------------------- writeFinalReport

\* Array.prototype.join
RECURSIVE JoinStrings(_, _)
JoinStrings(items, sep) ==
  IF items = << >> THEN ""
  ELSE IF Len(items) = 1 THEN items[1]
  ELSE JoinStrings(Front(items), sep) \o sep \o Last(items)

\* visitedUrls.map(url => `- ${url}`) (faulty variant: every url once)
UrlItemsOnce(visitedUrls) ==
  [i \in 1..Len(Dedupe(visitedUrls)) |-> "- " \o Dedupe(visitedUrls)[i]]
UrlItems(visitedUrls) == [i \in 1..Len(visitedUrls) |-> "- " \o visitedUrls[i]]

\* The two files that define writeFinalReport.
Variants == {"deep-research.ts", "part_000"}

\* the template literal sourcesSection
SourcesSection(variant, visitedUrls) ==
  IF variant = "deep-research.ts"
  THEN "\n  \n## Sources and References:\n"
         \o JoinStrings(UrlItems(visitedUrls), "\n") \o "\n"
  ELSE "\n\n## Sources and References\n\n"
         \o JoinStrings(UrlItems(visitedUrls), "\n")

\* what the model may put into reportMarkdown: nothing, a text, a text with
\* a sources section of its own
ReportBodies ==
  { "", "Report.", "Report.\n\n## Sources and References:\n- u9\n" }

UrlLists == UNION { [1..n -> {"u1", "u2"}] : n \in 0..MaxUrls }

NoReport == [pc |-> "idle"]

\* writeFinalReport at its await (the learnings go into the prompt, which
\* only the model reads)
ReportCall(variant, visitedUrls) ==
  [ pc |-> "asking", variant |-> variant, visitedUrls |-> visitedUrls,
    reportMarkdown |-> "", out |-> "" ]

\* generateObject answers: return res.object.reportMarkdown + sourcesSection
ReportReturns(reportMarkdown) ==
  /\ report.pc = "asking"
  /\ report' = [report EXCEPT
       !.pc = "returned",
       !.reportMarkdown = reportMarkdown,
       !.out = reportMarkdown
                 \o SourcesSection(report.variant, report.visitedUrls)]
  /\ UNCHANGED <<inv, unit, calls, trim>>

\* generateObject throws (its abortSignal among the causes): so does
\* writeFinalReport
ReportFails ==
  /\ report.pc = "asking"
  /\ report' = [report EXCEPT !.pc = "failed"]
  /\ UNCHANGED <<inv, unit, calls, trim>>

\* ---------------------------------------------------------- specification

\* A root call deepResearch({query, breadth, depth}): learnings and
\* visitedUrls take their defaults.
RootCall(breadth, depth) ==
  /\ inv = (<<>> :> NewInvocation(breadth, depth, <<>>, <<>>))
  /\ unit = << >>
  /\ calls = [planner |-> 1, search |-> 0, distill |-> 0]

Init ==
  /\ \E breadth \in 1..MaxBreadth, depth \in 0..MaxDepth :
       RootCall(breadth, depth)
  /\ trim = NoTrim
  /\ report = NoReport

Next ==
  \/ \E q \in DOMAIN inv, m \in 0..(MaxBreadth + 1) : PlannerReturns(q, m)
  \/ \E q \in DOMAIN inv, e \in ErrorsOf("planner") : PlannerFails(q, e)
  \/ \E u \in DOMAIN unit : \E docs \in SearchResponses(u) : SearchReturns(u, docs)
  \/ \E u \in DOMAIN unit, e \in ErrorsOf("search") : SearchFails(u, e)
  \/ \E u \in DOMAIN unit : \E res \in DistillResponses(u) : DistillReturns(u, res)
  \/ \E u \in DOMAIN unit, e \in ErrorsOf("distill") : DistillFails(u, e)

Spec == Init /\ [][Next]_vars

\* no collaborator call is in flight
Quiescent ==
  /\ \A q \in DOMAIN inv : inv[q].status # "planning"
  /\ \A u \in DOMAIN unit : unit[u].stage \notin {"searching", "distilling"}

\* Every collaborator call is eventually answered, with a result or with a
\* failure.  A step of Next is enabled exactly when a call is in flight and
\* a run takes finitely many steps, so this is weak fairness of Next, said
\* with a state predicate: no call stays in flight for ever.
FairSpec == Spec /\ []<>Quiescent

\* A timeout that was set runs out: the call fails with a timeout error.
TimerFires ==
  \/ \E q \in DOMAIN inv :
       "Timeout" \in ErrorsOf("planner") /\ PlannerFails(q, "Timeout")
  \/ \E u \in DOMAIN unit :
       "Timeout" \in ErrorsOf("search") /\ SearchFails(u, "Timeout")
  \/ \E u \in DOMAIN unit :
       "Timeout" \in ErrorsOf("distill") /\ DistillFails(u, "Timeout")

\* The collaborators may never answer; only the timers are sure to run out.
TimeoutSpec == Spec /\ WF_vars(TimerFires)

\* The sink onProgress may throw whenever it is called.
SinkNext ==
  \/ \E q \in DOMAIN inv, m \in 0..(MaxBreadth + 1) :
       PlannerReturnsSinkThrows(q, m)
  \/ \E u \in DOMAIN unit : \E res \in DistillResponses(u) :
       DistillReturnsSinkThrows(u, res)

ThrowingSinkSpec == Init /\ [][Next \/ SinkNext]_vars

\* trimPrompt on its own: any prompt, any context size.
TrimInit ==
  /\ inv = << >> /\ unit = << >>
  /\ calls = [planner |-> 0, search |-> 0, distill |-> 0]
  /\ report = NoReport
  /\ \E prompt \in Prompts, contextSize \in ContextSizes :
       trim = TrimCall(prompt, contextSize)

TrimNext == TrimRecurses \/ TrimReturns \/ TrimAgain

TrimSpec == TrimInit /\ [][TrimNext]_vars

\* writeFinalReport on its own: either file's, any list of urls.
ReportInit ==
  /\ inv = << >> /\ unit = << >>
  /\ calls = [planner |-> 0, search |-> 0, distill |-> 0]
  /\ trim = NoTrim
  /\ \E variant \in Variants, visitedUrls \in UrlLists :
       report = ReportCall(variant, visitedUrls)

ReportNext ==
  \/ \E reportMarkdown \in ReportBodies : ReportReturns(reportMarkdown)
  \/ ReportFails

ReportSpec == ReportInit /\ [][ReportNext]_vars

\* The merge on its own: a call whose two units have both settled with
\* the same ResearchResult, any lists of learnings and of urls (repeats
\* among them), is at its await of Promise.all.
LearningLists == UNION { [1..n -> {"L1", "L2"}] : n \in 0..MaxUrls }

MergeCall(result) ==
  LET q == << >>
      settled == [NewUnit EXCEPT !.stage = "done", !.outcome = "resolved",
                                 !.result = result]
  IN [ inv |-> (q :> [NewInvocation(2, 0, <<>>, <<>>)
                        EXCEPT !.status = "running",
                               !.serpQueries = PlannerAnswer(2)]),
       unit |-> [u \in {q \o <<1>>, q \o <<2>>} |-> settled],
       calls |-> [planner |-> 1, search |-> 2, distill |-> 2] ]

MergeInit ==
  /\ \E learnings \in LearningLists, visitedUrls \in UrlLists :
       LET S == MergeCall([learnings |-> learnings,
                           visitedUrls |-> visitedUrls])
       IN inv = S.inv /\ unit = S.unit /\ calls = S.calls
  /\ trim = NoTrim
  /\ report = NoReport

\* Promise.all fulfils and deepResearch returns the merged result
MergeReturns ==
  /\ inv[<< >>].status = "running"
  /\ Becomes(PromiseAll(Now, << >>))

MergeNext == MergeReturns

MergeSpec == MergeInit /\ [][MergeNext]_vars

\* One deep call: the widest root call, one level deeper than MaxDepth, in
\* a call tree of up to MaxDeepUnits units, where every search and every
\* distillation succeeds, only the Planner may fail, and the Planner
\* returns MaxBreadth queries or as many as fill the tree after those.
MaxDeepUnits == MaxUnits + 2

DeepInit ==
  /\ RootCall(MaxBreadth, MaxDepth + 1)
  /\ trim = NoTrim
  /\ report = NoReport

DeepNext ==
  \/ \E q \in DOMAIN inv, m \in {MaxDeepUnits - MaxBreadth, MaxBreadth} :
       PlannerReturnsWithin(q, m, MaxDeepUnits)
  \/ \E q \in DOMAIN inv, e \in ErrorsOf("planner") : PlannerFails(q, e)
  \/ \E u \in DOMAIN unit : \E docs \in SearchResponses(u) : SearchReturns(u, docs)
  \/ \E u \in DOMAIN unit : \E res \in DistillResponses(u) : DistillReturns(u, res)

DeepSpec == DeepInit /\ [][DeepNext]_vars

\* ------------------------------------------------------ read by the claims

Root == << >>

Planned(q) == inv[q].status # "planning" /\ inv[q].failure # "planner"

Units(q) == {q \o <<i>> : i \in 1..Len(inv[q].serpQueries)}

AllDone(q) == \A u \in Units(q) : unit[u].stage = "done"

\* units of q whose function has started and has not settled
InFlight(q) == {u \in Units(q) : unit[u].stage \in InFlightStages}

TotalInFlight == {u \in DOMAIN unit : unit[u].stage \in InFlightStages}

NoDuplicates(s) == \A i, j \in 1..Len(s) : i # j => s[i] # s[j]

Settled(q) == inv[q].status \in {"returned", "failed"}


\* ----------------------------------------------------------------- claims

\* C1: in every invocation where the search of some unit failed, that unit
\* contributes the empty result, and once the units of the invocation have
\* all finished the invocation has returned normally, with everything its
\* units that did not fail produced in the returned lists.
C1_SearchFailureIsolated ==
  \A q \in DOMAIN inv :
    \A u \in Units(q) :
      unit[u].failure = "search" =>
        /\ unit[u].outcome = "resolved"
        /\ unit[u].result = EmptyResult
        /\ AllDone(q) =>
             /\ inv[q].status = "returned"
             /\ \A v \in Units(q) :
                  unit[v].failure = "none" =>
                    /\ Range(unit[v].result.learnings)
                         \subseteq Range(inv[q].result.learnings)
                    /\ Range(unit[v].result.visitedUrls)
                         \subseteq Range(inv[q].result.visitedUrls)

\* C2: a unit whose recursive call failed is recovered: it contributes the
\* empty result, its invocation is not failed by it, and the root call
\* fails only when its own Planner call failed.
C2_NestedFailureRecovered ==
  /\ \A u \in DOMAIN unit :
       (u \in DOMAIN inv /\ inv[u].status = "failed") =>
         /\ unit[u].outcome = "resolved"
         /\ unit[u].result = EmptyResult
         /\ inv[Front(u)].status # "failed"
  /\ inv[Root].status = "failed" => inv[Root].failure = "planner"

\* C3: when the Planner fails in the root invocation the root call is
\* failed, no unit was scheduled, no search or distill call was issued, no
\* recursive call was made and no result is returned.
C3_RootPlannerFailurePropagates ==
  inv[Root].failure = "planner" =>
    /\ inv[Root].status = "failed"
    /\ DOMAIN unit = {}
    /\ DOMAIN inv = {Root}
    /\ calls.search = 0 /\ calls.distill = 0
    /\ inv[Root].result = EmptyResult

C3_Witness == inv[Root].failure = "planner" /\ inv[Root].breadth > 1

\* C4: when every collaborator call in flight is eventually answered
\* (FairSpec), the root call eventually settles and no unit is left waiting
\* for a limiter slot; and every recursive call has a smaller depth than
\* its caller.
C4_RootSettles ==
  /\ <>Settled(Root)
  /\ <>[](\A u \in DOMAIN unit : unit[u].stage = "done")
  /\ [](\A u \in DOMAIN inv : u # Root => inv[u].depth < inv[Front(u)].depth)

C4_Witness ==
  /\ inv[Root].status = "returned"
  /\ Len(inv[Root].serpQueries) > ConcurrencyLimit
  /\ \A u \in DOMAIN unit : unit[u].stage = "done"

\* C5: at most ConcurrencyLimit units of one invocation are in flight, and
\* a queued unit starts only in a step in which a unit of the same
\* invocation that was in flight finishes.
C5_LimiterBound ==
  /\ [](\A q \in DOMAIN inv : Cardinality(InFlight(q)) <= ConcurrencyLimit)
  /\ [][\A u \in DOMAIN unit :
          (unit[u].stage = "queued" /\ unit'[u].stage # "queued") =>
            \E v \in Units(Front(u)) :
              /\ unit[v].stage \in InFlightStages
              /\ unit'[v].stage = "done"]_vars

C5_Witness ==
  \E q \in DOMAIN inv :
    /\ Len(inv[q].serpQueries) > ConcurrencyLimit
    /\ Cardinality(InFlight(q)) = ConcurrencyLimit
    /\ unit[q \o <<ConcurrencyLimit + 1>>].stage = "searching"
    /\ \E v \in Units(q) : unit[v].stage = "done"

\* C6: a limiter counts the units of its own invocation only: a unit waits
\* in the queue only while ConcurrencyLimit units of its own invocation are
\* in flight, whatever runs elsewhere in the call tree (so the units in
\* flight over the whole tree can be more than ConcurrencyLimit).
C6_LimiterPerInvocation ==
  \A q \in DOMAIN inv :
    /\ inv[q].activeCount = Cardinality(InFlight(q))
    /\ inv[q].queue # <<>> => Cardinality(InFlight(q)) = ConcurrencyLimit

C6_Witness ==
  /\ Cardinality(TotalInFlight) > ConcurrencyLimit
  /\ \A q \in DOMAIN inv : Cardinality(InFlight(q)) < ConcurrencyLimit

\* C7: the lists an invocation returns hold no string twice, also when
\* two of its units found the same learning or a unit's own lists hold a
\* string twice (once from the accumulated input, once from its output).
C7_NoDuplicatesReturned ==
  \A q \in DOMAIN inv :
    inv[q].status = "returned" =>
      /\ NoDuplicates(inv[q].result.learnings)
      /\ NoDuplicates(inv[q].result.visitedUrls)

C7_Witness ==
  \E q \in DOMAIN inv :
    /\ inv[q].status = "returned"
    /\ \E u, v \in Units(q) :
         /\ u # v
         /\ "L1" \in Range(unit[u].result.learnings)
         /\ "L1" \in Range(unit[v].result.learnings)
         /\ ~NoDuplicates(unit[u].result.learnings)
         /\ ~NoDuplicates(unit[v].result.visitedUrls)

\* What the collaborators' answers alone determine, whatever the order in
\* which the units ran: the accumulated list a call at path q is given ...
RECURSIVE AnswersAlong(_, _)
AnswersAlong(q, field) ==
  IF q = Root THEN <<>>
  ELSE AnswersAlong(Front(q), field) \o
         (IF field = "learnings" THEN unit[q].newLearnings ELSE unit[q].newUrls)

\* ... and the list it returns, its units taken in the Planner's order.
RECURSIVE ExpectedFrom(_, _, _)
ExpectedFrom(q, field, i) ==
  IF i > Len(inv[q].serpQueries) THEN <<>>
  ELSE LET u == q \o <<i>>
       IN (IF unit[u].failure # "none" THEN <<>>
           ELSE IF u \in DOMAIN inv THEN Dedupe(ExpectedFrom(u, field, 1))
           ELSE AnswersAlong(u, field))
          \o ExpectedFrom(q, field, i + 1)

Expected(q, field) == Dedupe(ExpectedFrom(q, field, 1))

\* C8: the sets of learnings and of URLs a call returns (the root call in
\* particular) are those the collaborators' answers determine, in whatever
\* order the units of the call tree were resumed and finished.
C8_ResultIndependentOfInterleaving ==
  \A q \in DOMAIN inv :
    inv[q].status = "returned" =>
      /\ Range(inv[q].result.learnings) = Range(Expected(q, "learnings"))
      /\ Range(inv[q].result.visitedUrls) = Range(Expected(q, "visitedUrls"))

C8_Witness ==
  /\ inv[Root].status = "returned"
  /\ Cardinality(DOMAIN inv) > 2
  /\ \E u \in Units(Root) : unit[u].failure = "search"
  /\ Cardinality(Range(inv[Root].result.learnings)) > 1
  /\ Cardinality(Range(inv[Root].result.visitedUrls)) > 1

\* C9: a recursive call made by an invocation with budget (breadth, depth)
\* is given breadth' with breadth <= 2 * breadth' <= breadth + 1, that is
\* ceil(breadth / 2), which is at least 1, and depth' = depth - 1; from
\* (4, 2) that is (2, 1), and from (2, 1) it would be (1, 0).
C9_ChildBudget ==
  \A u \in DOMAIN inv :
    u # Root =>
      LET parent == inv[Front(u)]
          child == inv[u]
      IN /\ parent.breadth >= 1
         /\ 2 * child.breadth \in {parent.breadth, parent.breadth + 1}
         /\ child.breadth >= 1
         /\ child.depth = parent.depth - 1
         /\ (parent.breadth = 4 /\ parent.depth = 2) =>
              (child.breadth = 2 /\ child.depth = 1)
         /\ (parent.breadth = 2 /\ parent.depth = 1) =>
              (child.breadth = 1 /\ child.depth = 0)

C9_Witness ==
  /\ inv[Root].breadth = 4 /\ inv[Root].depth = 2
  /\ \E u \in Units(Root) : u \in DOMAIN inv /\ inv[u].status = "returned"

\* C10 (as amended): a root call with depth 0 calls the Planner once and
\* makes no recursive call; when it has returned it has made exactly one
\* search call per SubQuery and exactly one distill call per SubQuery whose
\* search succeeded (a unit whose search failed makes no distill call).
C10_DepthZeroSinglePass ==
  inv[Root].depth = 0 =>
    /\ calls.planner = 1
    /\ DOMAIN inv = {Root}
    /\ (Planned(Root) /\ AllDone(Root)) => inv[Root].status = "returned"
    /\ inv[Root].status = "returned" =>
         /\ calls.search = Len(inv[Root].serpQueries)
         /\ calls.distill =
              Cardinality({u \in Units(Root) : unit[u].failure # "search"})

C10_Witness ==
  /\ inv[Root].depth = 0
  /\ inv[Root].status = "returned"
  /\ \E u, v \in Units(Root) :
       unit[u].failure = "search" /\ unit[v].failure = "none"

\* C10 (as claimed): a root call with depth 0 that has returned has called
\* the Planner once, has made exactly one search and one distill call per
\* SubQuery, and has made no recursive call.
C10_AsClaimed ==
  (inv[Root].depth = 0 /\ inv[Root].status = "returned") =>
    /\ calls.planner = 1
    /\ DOMAIN inv = {Root}
    /\ calls.search = Len(inv[Root].serpQueries)
    /\ calls.distill = Len(inv[Root].serpQueries)

\* C11: no invocation lies deeper in the call tree than the root's depth:
\* the path of every invocation is at most inv[Root].depth long, and the
\* depth an invocation was called with is the root's less the length of its
\* path.
C11_NestingWithinDepth ==
  \A q \in DOMAIN inv :
    /\ Len(q) <= inv[Root].depth
    /\ inv[q].depth = inv[Root].depth - Len(q)

C11_Witness ==
  \E q \in DOMAIN inv :
    /\ Len(q) = MaxDepth - 1
    /\ inv[q].status = "returned"
    /\ inv[Root].status = "returned"

\* C13: the invocations of one call tree share one progress record: at all
\* times every invocation's record is the root's.
C13_SharedProgress ==
  \A q \in DOMAIN inv : inv[q].progress = inv[Root].progress

\* C14: an invocation takes at most breadth queries from the Planner and
\* hands at most breadth units to its limiter.
C14_PlannerBounded ==
  \A q \in DOMAIN inv :
    /\ Len(inv[q].serpQueries) <= inv[q].breadth
    /\ Cardinality({u \in DOMAIN unit : Front(u) = q}) <= inv[q].breadth

C14_Witness ==
  \E q \in DOMAIN inv :
    /\ q # Root
    /\ inv[q].breadth > 1
    /\ Len(inv[q].serpQueries) = inv[q].breadth
    /\ Units(q) \subseteq DOMAIN unit
    /\ Len(inv[Root].serpQueries) = inv[Root].breadth

\* C15: what processSerpResult returned to a unit holds at most numLearnings
\* learnings and at most numFollowUpQuestions (the invocation's newBreadth)
\* follow-up questions.
C15_DistillerBounded ==
  \A u \in DOMAIN unit :
    /\ Len(unit[u].newLearnings) <= NumLearnings
    /\ Len(unit[u].followUpQuestions) <= NewBreadth(inv[Front(u)].breadth)

\* C12: every call is bounded by a timeout: even when the collaborators
\* never answer (TimeoutSpec), the root call eventually settles and no call
\* stays in flight.
C12_AllCallsTimeOut == <>[](Settled(Root) /\ Quiescent)

\* some call of the present application of trimPrompt took this branch
Took(via) == \E i \in 1..Len(trim.path) : trim.path[i] = via

\* C16: the text trimPrompt returns has at most contextSize tokens.
C16_TrimWithinBudget ==
  trim.pc = "returned" => Tokens(trim.prompt) <= trim.contextSize

\* C17: trimPrompt terminates: a call returns or ends in a call on a
\* strictly shorter prompt, so that there are never more calls than the
\* text given has characters, and one more; and a call whose prompt is over
\* the context size and whose target size is below MinChunkSize returns.
C17_TrimTerminates ==
  /\ [][trim.pc = "call" =>
          \/ trim'.pc = "returned"
          \/ trim'.pc = "call" /\ Len(trim'.prompt) < Len(trim.prompt)]_vars
  /\ [][( /\ trim.pc = "call"
          /\ Tokens(trim.prompt) > trim.contextSize
          /\ TargetChunkSize(trim.prompt,
               Tokens(trim.prompt) - trim.contextSize) < MinChunkSize )
          => trim'.pc = "returned"]_vars
  /\ [](Len(trim.path) <= Len(trim.input) + 1)

C17_Witness ==
  /\ trim.pc = "returned"
  /\ Took("chunk") /\ Took("slice")
  /\ Len(trim.path) >= 3

\* C18: trimPrompt applied to what trimPrompt returned, with the same
\* context size, returns that text again.
C18_TrimIdempotent ==
  (trim.applied = 2 /\ trim.pc # "call") =>
    trim.pc = "returned" /\ trim.prompt = trim.before

C18_Witness ==
  /\ trim.applied = 2 /\ trim.pc = "returned"
  /\ trim.path = << "floor" >>
  /\ Len(trim.before) = MinChunkSize
  /\ Tokens(trim.before) > trim.contextSize

\* C19: trimPrompt of the empty text returns the empty text.
C19_TrimEmpty ==
  (trim.input = << >> /\ trim.pc # "call") =>
    trim.pc = "returned" /\ trim.prompt = << >>

C19_Witness ==
  /\ trim.applied = 1 /\ trim.input = << >> /\ trim.pc = "returned"
  /\ trim.contextSize = 0

\* the lines of a text
RECURSIVE SplitLines(_, _)
SplitLines(str, from) ==
  LET breaks == {i \in from..Len(str) : SubSeq(str, i, i) = "\n"}
      next == CHOOSE i \in breaks : \A j \in breaks : i <= j
  IN IF breaks = {} THEN << SubSeq(str, from, Len(str)) >>
     ELSE << SubSeq(str, from, next - 1) >> \o SplitLines(str, next + 1)

Headings == {"## Sources and References:", "## Sources and References"}

\* C20: the report writeFinalReport returns begins with the model's
\* reportMarkdown; in what follows it there is a Sources and References
\* heading, and the lines after that heading, the empty ones apart, are the
\* urls of visitedUrls, one to a line and in order.
C20_ReportListsEveryUrl ==
  report.pc = "returned" =>
    LET body == report.reportMarkdown
        urls == report.visitedUrls
        rest == SubSeq(report.out, Len(body) + 1, Len(report.out))
        lines == SplitLines(rest, 1)
        heads == {i \in 1..Len(lines) : lines[i] \in Headings}
        head == CHOOSE i \in heads : \A j \in heads : i <= j
        listed == SelectSeq(SubSeq(lines, head + 1, Len(lines)),
                            LAMBDA l : l # "")
    IN /\ Len(report.out) >= Len(body)
       /\ SubSeq(report.out, 1, Len(body)) = body
       /\ heads # {}
       /\ listed = [i \in 1..Len(urls) |-> "- " \o urls[i]]

C20_Witness ==
  /\ report.pc = "returned"
  /\ report.visitedUrls = << "u2", "u1", "u2" >>
  /\ report.reportMarkdown = "Report.\n\n## Sources and References:\n- u9\n"

\* the units of the call tree under invocation q
Subtree(q) ==
  {u \in DOMAIN unit : Len(u) > Len(q) /\ SubSeq(u, 1, Len(q)) = q}

Siblings(u) == {v \in DOMAIN unit : Front(v) = Front(u) /\ v # u}

\* C21: what an invocation returns holds every learning and every url it
\* was called with.
C21_AccumulatedInputKept ==
  \A q \in DOMAIN inv :
    inv[q].status = "returned" =>
      /\ Range(inv[q].learnings) \subseteq Range(inv[q].result.learnings)
      /\ Range(inv[q].visitedUrls) \subseteq Range(inv[q].result.visitedUrls)

\* C22: once the root call has settled nothing of its call tree is in
\* flight: every unit is done and every invocation has settled.
C22_NothingInFlightAfterRoot ==
  Settled(Root) =>
    /\ \A u \in DOMAIN unit : unit[u].stage = "done"
    /\ \A q \in DOMAIN inv : Settled(q)

\* C24: a unit whose distillation failed ends resolved with the empty
\* result and without a recursive call; the step in which it fails changes
\* no sibling's outcome, result or failure and does not fail the
\* invocation; and an invocation that returns holds what its units that did
\* not fail returned.
C24_DistillFailureIsolated ==
  /\ [](\A u \in DOMAIN unit :
          unit[u].failure = "distill" =>
            /\ unit[u].stage = "done" /\ unit[u].outcome = "resolved"
            /\ unit[u].result = EmptyResult
            /\ u \notin DOMAIN inv
            /\ inv[Front(u)].status = "returned" =>
                 \A v \in Siblings(u) :
                   unit[v].failure = "none" =>
                     /\ Range(unit[v].result.learnings)
                          \subseteq Range(inv[Front(u)].result.learnings)
                     /\ Range(unit[v].result.visitedUrls)
                          \subseteq Range(inv[Front(u)].result.visitedUrls))
  /\ [][\A u \in DOMAIN unit :
          (unit[u].stage = "distilling" /\ unit'[u].failure = "distill") =>
            /\ \A v \in Siblings(u) :
                 /\ unit'[v].outcome = unit[v].outcome
                 /\ unit'[v].result = unit[v].result
                 /\ unit'[v].failure = unit[v].failure
            /\ inv'[Front(u)].status = "failed"
                 => inv[Front(u)].status = "failed"]_vars

C24_Witness ==
  \E u \in DOMAIN unit :
    /\ unit[u].failure = "distill"
    /\ inv[Front(u)].status = "returned"
    /\ inv[Front(u)].result.visitedUrls # << >>
    /\ \E v \in Siblings(u) : v \in DOMAIN inv /\ unit[v].failure = "none"

\* C25: what a unit hands to its recursive call, or returns as a leaf, is
\* the lists its invocation was called with followed by the unit's own
\* learnings and urls; and the lists an invocation was called with never
\* change.
C25_BranchLocalAccumulation ==
  /\ [](\A u \in DOMAIN unit :
          LET q == Front(u)
              allLearnings == inv[q].learnings \o unit[u].newLearnings
              allUrls == inv[q].visitedUrls \o unit[u].newUrls
          IN /\ u \in DOMAIN inv =>
                  /\ inv[u].learnings = allLearnings
                  /\ inv[u].visitedUrls = allUrls
             /\ ( /\ u \notin DOMAIN inv
                  /\ unit[u].stage = "done" /\ unit[u].failure = "none" ) =>
                  unit[u].result = [ learnings |-> allLearnings,
                                     visitedUrls |-> allUrls ])
  /\ [][\A q \in DOMAIN inv :
          /\ inv'[q].learnings = inv[q].learnings
          /\ inv'[q].visitedUrls = inv[q].visitedUrls]_vars

C25_Witness ==
  \E u \in DOMAIN unit :
    /\ u \notin DOMAIN inv
    /\ unit[u].stage = "done" /\ unit[u].failure = "none"
    /\ inv[Front(u)].learnings # << >> /\ inv[Front(u)].visitedUrls # << >>
    /\ unit[u].newLearnings # << >> /\ unit[u].newUrls # << >>
    /\ \E v \in Siblings(u) : unit[v].stage = "done" /\ unit[v].failure = "none"

\* units that made no recursive call
Leaves == {u \in DOMAIN unit : u \notin DOMAIN inv}

\* C26: when the root call has returned and no unit has failed, the
\* learnings it returns are, as a set, those it was called with and those
\* distilled on the path to a leaf, over all the leaves; likewise the urls.
C26_UnionOverLeaves ==
  ( /\ inv[Root].status = "returned"
    /\ \A u \in DOMAIN unit : unit[u].failure = "none" ) =>
    /\ Range(inv[Root].result.learnings) =
         UNION { Range(inv[Root].learnings)
                   \cup Range(AnswersAlong(u, "learnings")) : u \in Leaves }
    /\ Range(inv[Root].result.visitedUrls) =
         UNION { Range(inv[Root].visitedUrls)
                   \cup Range(AnswersAlong(u, "visitedUrls")) : u \in Leaves }

C26_Witness ==
  /\ inv[Root].status = "returned"
  /\ \A u \in DOMAIN unit : unit[u].failure = "none"
  /\ Cardinality(Leaves) > 2
  /\ \E u \in Leaves : Len(u) > 1
  /\ Cardinality(Range(inv[Root].result.learnings)) > 1

\* the documents firecrawl.search returned to unit u
DocsOf(u) == UNION { Range(docs) : docs \in SearchResponses(u) }

\* C27: what an invocation returns holds nothing but what it was called
\* with and, for learnings, what processSerpResult returned to a unit of
\* its call tree, for urls, the non-empty url of a document a search of its
\* call tree returned.
C27_NothingInvented ==
  \A q \in DOMAIN inv :
    inv[q].status = "returned" =>
      /\ Range(inv[q].result.learnings) \subseteq
           Range(inv[q].learnings)
             \cup UNION { Range(unit[u].newLearnings) : u \in Subtree(q) }
      /\ Range(inv[q].result.visitedUrls) \subseteq
           Range(inv[q].visitedUrls)
             \cup ( UNION { {d.url : d \in DocsOf(u)} : u \in Subtree(q) }
                      \ {""} )

C27_Witness ==
  /\ inv[Root].status = "returned"
  /\ \E u \in Units(Root) :
       /\ unit[u].failure = "none"
       /\ \E d \in DocsOf(u) : d.url = ""
       /\ Range(unit[u].newUrls) \subseteq Range(inv[Root].result.visitedUrls)
       /\ unit[u].newUrls # << >>

\* breadth units, each with a call tree for the halved breadth and the
\* depth less one, as long as that depth is positive
RECURSIVE UnitBound(_, _)
UnitBound(breadth, depth) ==
  IF depth - 1 > 0
  THEN breadth * (1 + UnitBound((breadth + 1) \div 2, depth - 1))
  ELSE breadth

\* C28: the call tree of an invocation with budget (breadth, depth) has at
\* most breadth units when depth <= 1, and else at most breadth units and,
\* for each of them, a call tree of budget (ceil(breadth / 2), depth - 1).
C28_UnitsWithinTreeBound ==
  \A q \in DOMAIN inv :
    Cardinality(Subtree(q)) <= UnitBound(inv[q].breadth, inv[q].depth)

C28_Witness ==
  /\ inv[Root].depth = 2 /\ inv[Root].breadth = 2
  /\ Cardinality(DOMAIN unit) = UnitBound(2, 2)
  /\ inv[Root].status = "returned"

\* C28 (as claimed): a root call with budget (breadth, depth) runs at most
\* breadth * depth units.
C28_AsClaimed ==
  Cardinality(DOMAIN unit) <= inv[Root].breadth * inv[Root].depth

\* units of q that have got past search and distill
Passed(q) ==
  {u \in Units(q) : /\ unit[u].stage \in {"recursing", "done"}
                    /\ unit[u].failure \notin {"search", "distill"}}

\* C29: an invocation's completedQueries counts its units that got past
\* search and distill, each once, and totalQueries its units; when every
\* unit has got there the two are equal.
C29_CompletedQueriesCounted ==
  \A q \in DOMAIN inv :
    Planned(q) =>
      /\ inv[q].progress.completedQueries = Cardinality(Passed(q))
      /\ inv[q].progress.totalQueries = Len(inv[q].serpQueries)
      /\ Passed(q) = Units(q) =>
           inv[q].progress.completedQueries = inv[q].progress.totalQueries

C29_Witness ==
  \E q \in DOMAIN inv :
    /\ Planned(q) /\ Len(inv[q].serpQueries) > 2
    /\ Passed(q) = Units(q)
    /\ \E u \in Units(q) : unit[u].stage = "recursing"

\* C30: every progress record has 0 <= completedQueries <= totalQueries,
\* 0 <= currentDepth <= totalDepth and 1 <= currentBreadth <= totalBreadth.
C30_ProgressInRange ==
  \A q \in DOMAIN inv :
    LET p == inv[q].progress
    IN /\ 0 <= p.completedQueries /\ p.completedQueries <= p.totalQueries
       /\ 0 <= p.currentDepth /\ p.currentDepth <= p.totalDepth
       /\ 1 <= p.currentBreadth /\ p.currentBreadth <= p.totalBreadth

C30_Witness ==
  /\ inv[Root].depth = 0
  /\ inv[Root].progress.completedQueries = inv[Root].progress.totalQueries
  /\ inv[Root].progress.totalQueries > 1
  /\ \E u \in Units(Root) : unit[u].failure = "none" /\ unit[u].stage = "done"

\* C23: a sink that throws changes no outcome (ThrowingSinkSpec): no
\* invocation is failed where its sink threw, and a unit at whose report
\* the sink threw still returns the accumulated lists with its learnings.
C23_ThrowingSinkHarmless ==
  /\ \A q \in DOMAIN inv :
       inv[q].failure = "sink" => inv[q].status # "failed"
  /\ \A u \in DOMAIN unit :
       (unit[u].failure = "sink" /\ u \notin DOMAIN inv) =>
         unit[u].result.learnings =
           inv[Front(u)].learnings \o unit[u].newLearnings


\* the unit v and everything below it has finished: v has settled, so has
\* every unit of its nested calls, and so has every nested call
Finished(v) ==
  /\ unit[v].stage = "done"
  /\ \A w \in Subtree(v) : unit[w].stage = "done"
  /\ \A p \in DOMAIN inv :
       (Len(p) >= Len(v) /\ SubSeq(p, 1, Len(v)) = v) => Settled(p)

\* units of q that have started and whose sub-tree has not finished
Unfinished(q) ==
  {v \in Units(q) : unit[v].stage # "queued" /\ ~Finished(v)}

\* C31: a unit keeps its limiter slot until its whole sub-tree has
\* finished: at most ConcurrencyLimit units of an invocation have started
\* and have an unfinished sub-tree, so that the search of the fifth unit
\* starts only after an earlier unit and all its nested research calls
\* have finished.
C31_SlotKeptOverSubtree ==
  \A q \in DOMAIN inv : Cardinality(Unfinished(q)) <= ConcurrencyLimit


\* C32: the lists of learnings and of URLs a call returns (not only their
\* sets) are the first occurrences, over its units taken in the Planner's
\* order, of what the collaborators answered, in whatever order the units
\* of the call tree were resumed and finished.
C32_ListsInPlannerOrder ==
  \A q \in DOMAIN inv :
    inv[q].status = "returned" =>
      /\ inv[q].result.learnings = Expected(q, "learnings")
      /\ inv[q].result.visitedUrls = Expected(q, "visitedUrls")

\* the place of x in the list s
IndexOf(s, x) == CHOOSE i \in 1..Len(s) : s[i] = x

\* the order shows: a call that made nested calls has returned, and of two
\* of its units whose lists begin differently, the earlier unit's first
\* learning and first url stand before the later unit's
C32_Witness ==
  \E q \in DOMAIN inv :
    /\ inv[q].status = "returned"
    /\ \E u \in Units(q) : u \in DOMAIN inv /\ inv[u].status = "returned"
    /\ \E u, v \in Units(q) :
         /\ Last(u) < Last(v)
         /\ \A field \in {"learnings", "visitedUrls"} :
              /\ unit[u].result[field] # <<>>
              /\ unit[v].result[field] # <<>>
              /\ Head(unit[u].result[field]) # Head(unit[v].result[field])
              /\ IndexOf(inv[q].result[field], Head(unit[u].result[field]))
                   < IndexOf(inv[q].result[field], Head(unit[v].result[field]))

\* C33: merging a ResearchResult with itself, the way deepResearch merges
\* the results of its units, yields the same set of learnings and the
\* same set of urls.
C33_MergeIdempotent ==
  \A q \in DOMAIN inv :
    ( /\ inv[q].status = "returned"
      /\ Len(inv[q].serpQueries) > 1
      /\ \A u \in Units(q) : unit[u].result = unit[q \o <<1>>].result ) =>
        /\ Range(inv[q].result.learnings)
             = Range(unit[q \o <<1>>].result.learnings)
        /\ Range(inv[q].result.visitedUrls)
             = Range(unit[q \o <<1>>].result.visitedUrls)

\* a result of several learnings and urls, with repeats of its own, has
\* been merged with itself
C33_Witness ==
  /\ inv[Root].status = "returned"
  /\ Len(inv[Root].serpQueries) > 1
  /\ \A u \in Units(Root) : unit[u].result = unit[<<1>>].result
  /\ \A field \in {"learnings", "visitedUrls"} :
       /\ Cardinality(Range(unit[<<1>>].result[field])) > 1
       /\ ~NoDuplicates(unit[<<1>>].result[field])
       /\ Len(inv[Root].result[field]) > 1

====
